---- MODULE Spec2Model ----
(***************************************************************************)
(* LogWatcher (src/monitor.py): main() walks config['log_files'] and runs  *)
(* monitor_file() on each path in turn; monitor_file() polls the file's    *)
(* identity, reopens it on rotation or truncation, reads one line per loop *)
(* iteration, and on the first keyword found in the line alerts and calls  *)
(* log_incident().                                                         *)
(*                                                                         *)
(* Granularity.  The file system, the signal handler and the alerts log    *)
(* are the environment.  Every system call of monitor_file() that reads    *)
(* the file system is its own step (os.stat, open, seek/tell, the line     *)
(* count, readline), so the writer may act between any two of them; the    *)
(* test of the while condition (line 191) is a step too, so a signal may   *)
(* arrive between that test and the stat that follows.  File contents are  *)
(* sequences of whole lines; sizes and offsets are counted in lines.       *)
(* st_dev is the same for all files, so a file's identity is its inode     *)
(* number.  Timestamps are left out.  The calls that can fail are os.stat  *)
(* and open (no such file), and open and readline (OSError while io_fault  *)
(* is set); seek and tell always succeed.                                  *)
(*                                                                         *)
(* A line as readline() returns it ends with a newline unless it is the    *)
(* unfinished last line of the file (field nl).  alerts/alerts.log is the  *)
(* sequence of the records written to it, each with the newline that       *)
(* follows it or not; get_alerts() of src/dashboard.py reads that file     *)
(* from another process, between any two steps of the monitor.             *)
(***************************************************************************)
EXTENDS Naturals, Sequences, FiniteSets

VARIABLES
    config,              \* the config dict (read-only once load_config() returned)
    shutdown_requested,  \* module global, set by signal_handler
    dir,                 \* file system: path -> inode number, 0 = no such file
    files,               \* file system: inode number -> sequence of lines
    next_id,             \* identity of the next line any writer appends
    io_fault,            \* "none", or which call on a log file raises OSError
    sink_ok,             \* whether alerts/alerts.log can be opened and written
    main_idx,            \* main(): position of the for loop in log_files
    pc,                  \* control point of main()/monitor_file()
    file_handle,         \* monitor_file(): None, an open file, or a closed one
    current_file_id,     \* monitor_file(): identity recorded at the last open
    new_file_id,         \* monitor_file(): identity stat'd in this iteration
    file_rotated,        \* monitor_file(): this iteration's verdict flag
    last_position,       \* monitor_file(): offset after the last positioning/read
    lineno,              \* monitor_file(): line counter
    emitted,             \* calls of log_incident(), in order
    alerts_log,          \* records written to alerts/alerts.log, in order
    stdout,              \* alert_console() lines, in order
    started,             \* paths monitor_file() was called on
    skipped,             \* paths main() logged "Log file not found, skipping"
    at_open,             \* history: lines in the file at a FirstOpen/Rotated open()
    open_kind,           \* history: verdict under which the handle was opened
    reopened,            \* history: an open() succeeded since the last incident
    trunc_from,          \* history: size of the open file before its last
                         \*   in-place truncation (0: none since the last open)
    response,            \* dashboard.py: what the last get_alerts() returned
    raw_config,          \* history: the dict json.load() returned
    polled               \* history: identity the engine's previous poll observed

vars == <<config, shutdown_requested, dir, files, next_id, io_fault, sink_ok,
          main_idx, pc, file_handle, current_file_id, new_file_id, file_rotated,
          last_position, lineno, emitted, alerts_log, stdout, started, skipped,
          at_open, open_kind, reopened, trunc_from, response,
          raw_config, polled>>

envVars == <<dir, files, next_id, io_fault, sink_ok, shutdown_requested>>

histVars == <<trunc_from>>

engineVars == <<file_handle, current_file_id, new_file_id, file_rotated,
                last_position, lineno, at_open, open_kind, reopened>>

sinkVars == <<emitted, alerts_log, stdout>>

\* Everything but the dashboard's response.
monitorVars == <<config, raw_config, polled, envVars, main_idx, pc, engineVars, sinkVars,
                 started, skipped, histVars>>

(***************************************************************************)
(* Bounds of the model.                                                    *)
(***************************************************************************)
MaxLines == 2        \* lines appended by writers over a run
MaxInodes == 2       \* inode numbers the file system hands out (and reuses)
MaxTextLen == 3      \* longest line text of the classification harness

(***************************************************************************)
(* Configuration.                                                          *)
(***************************************************************************)
Severities == {"Info", "Warning", "Critical"}

Chars == {"F", "A", "W"}

\* The keyword table in dict iteration order.  The first rule is not the
\* most severe one, so "first match" and "highest severity" differ.
DefaultKeywords ==
    << [keyword |-> <<"W">>, severity |-> "Warning"],
       [keyword |-> <<"F", "A">>, severity |-> "Critical"] >>

\* Line 64; "a.log" stands for logs/system.log.
DefaultLogFiles == << "a.log" >>

\* Line 77.
DefaultAlertMethods == {"console"}

\* A valid configuration with two paths, as main() gets it from
\* load_config().
DefaultConfig ==
    [log_files |-> <<"a.log", "b.log">>,
     keywords |-> DefaultKeywords,
     alert_methods |-> {"console"}]

log_files == config.log_files

keywords == config.keywords

alert_methods == config.alert_methods

Paths == {"a.log", "b.log"}

\* Line texts the writers of the monitored files use: no keyword, the
\* second keyword.
LineTexts == { <<"A", "F">>, <<"F", "A">> }

Inodes == 1..MaxInodes

NoId == [ino |-> 0, size |-> 0]

NoHandle == [st |-> "none", ino |-> 0, pos |-> 0]

\* No call of get_alerts() yet.
NoResponse == [status |-> 0, alerts |-> << >>, count |-> 0]

ClosedHandle == [st |-> "closed", ino |-> 0, pos |-> 0]

(***************************************************************************)
(* Helpers.                                                                *)
(***************************************************************************)
Last(s) == s[Len(s)]

Ids(content) == { content[i].id : i \in 1..Len(content) }

\* An inode is in use while a path names it or the engine holds it open.
InUse(i, d, h) == (\E p \in Paths : d[p] = i) \/ (h.st = "open" /\ h.ino = i)

\* The file system frees the content of an inode nobody uses any more.
Reclaim(f, d, h) == [i \in Inodes |-> IF InUse(i, d, h) THEN f[i] ELSE << >>]

CurPath == log_files[main_idx]

Running == pc \in {"top", "stat", "open", "seek", "count", "read"}

\* Tail Engine state Open: a live handle on the file the path names, fully
\* positioned (not in the middle of a reopen).
EngineOpenOn(p) ==
    /\ pc \in {"top", "stat", "read"}
    /\ CurPath = p
    /\ file_handle.st = "open"
    /\ file_handle.ino = dir[p]

(***************************************************************************)
(* Pure functions of src/monitor.py.                                       *)
(***************************************************************************)
\* Python's `keyword in line` on strings: keyword is a contiguous substring.
KeywordIn(keyword, line) ==
    \E i \in 1..(Len(line) + 1) :
        /\ i + Len(keyword) - 1 <= Len(line)
        /\ SubSeq(line, i, i + Len(keyword) - 1) = keyword

\* The for loop over keywords.items() with its break: the index of the first
\* rule, in iteration order, whose keyword is in the line; 0 if the loop
\* runs to its end.
RECURSIVE FirstMatchFrom(_, _, _)
FirstMatchFrom(line, kws, i) ==
    IF i > Len(kws) THEN 0
    ELSE IF KeywordIn(kws[i].keyword, line) THEN i
    ELSE FirstMatchFrom(line, kws, i + 1)

\* Mutation: the break sits outside the `if`, so only the first rule is tried.
FirstMatch_FirstRuleOnly(line, kws) ==
    IF Len(kws) > 0 /\ KeywordIn(kws[1].keyword, line) THEN 1 ELSE 0

\* Mutation: no break, the last matching rule decides.
RECURSIVE LastMatchFrom(_, _, _)
LastMatchFrom(line, kws, i) ==
    IF i = 0 THEN 0
    ELSE IF KeywordIn(kws[i].keyword, line) THEN i
    ELSE LastMatchFrom(line, kws, i - 1)

FirstMatch_LastRuleWins(line, kws) == LastMatchFrom(line, kws, Len(kws))

FirstMatch(line, kws) == FirstMatchFrom(line, kws, 1)

\* get_file_id(): (st_dev, st_ino, st_size), or None (NoId) when os.stat raises.
get_file_id(filepath) ==
    IF dir[filepath] = 0 THEN NoId
    ELSE [ino |-> dir[filepath], size |-> Len(files[dir[filepath]])]

\* count_file_lines(): opens the path again and counts; any exception is
\* swallowed and the count reached so far (0: nothing was read) is returned.
count_file_lines(filepath) ==
    IF dir[filepath] = 0 \/ io_fault # "none" THEN 0
    ELSE Len(files[dir[filepath]])

\* Lines 209-220: the verdict flags.
FileRotated(new_id) ==
    \/ current_file_id = NoId
    \/ new_id.ino # current_file_id.ino

FileTruncated(new_id) ==
    /\ ~FileRotated(new_id)
    /\ new_id.size < current_file_id.size

\* Line 124: the text of one record, as the first f.write() puts it; it
\* ends with a newline iff the line read from the log file does.
RecordOf(severity, line, file, n) ==
    [severity |-> severity, file |-> file, lineno |-> n, line |-> line.text,
     nl |-> line.nl]

\* Lines 125-126: '\n' is written after a record that lacks it.
Terminate(rec) == IF ~rec.nl THEN [rec EXCEPT !.nl = TRUE] ELSE rec

\* Mutation: alerts.log opened with mode 'w' instead of 'a'.
log_incident_ModeW(log, severity, line, file, n) ==
    IF sink_ok
    THEN << Terminate(RecordOf(severity, line, file, n)) >>
    ELSE << >>

\* Mutation: lines 125-126 are missing.
log_incident_NoNewline(log, severity, line, file, n) ==
    IF sink_ok
    THEN Append(log, RecordOf(severity, line, file, n))
    ELSE log

\* log_incident(): one record appended to alerts.log; the two writes go to
\* the same buffered stream, which the `with` block flushes when it closes
\* the file.  An exception while opening or writing is logged and
\* swallowed, the log is left as it was.
log_incident(log, severity, line, file, n) ==
    IF sink_ok
    THEN Append(log, Terminate(RecordOf(severity, line, file, n)))
    ELSE log

\* alert_console(): one stdout line per call.
alert_console(out, severity, line) ==
    Append(out, [severity |-> severity, line |-> line])

\* dashboard.py line 76: the lines of alerts.log as `for line in f` yields
\* them, each the records whose text lies in that line; a last line
\* without its newline is yielded too.
RECURSIVE LinesFrom(_, _, _)
LinesFrom(log, i, cur) ==
    IF i > Len(log) THEN (IF cur = << >> THEN << >> ELSE << cur >>)
    ELSE IF log[i].nl THEN << Append(cur, log[i]) >> \o LinesFrom(log, i + 1, << >>)
    ELSE LinesFrom(log, i + 1, Append(cur, log[i]))

\* dashboard.py line 77: line.strip() drops the newline.
Strip(line) ==
    [j \in 1..Len(line) |->
        [severity |-> line[j].severity, file |-> line[j].file,
         lineno |-> line[j].lineno, line |-> line[j].line]]

\* Mutation: the first line of the file is taken for a header and dropped.
Alerts_SkipFirst(log) ==
    LET lines == LinesFrom(log, 1, << >>)
    IN  [k \in 1..(Len(lines) - 1) |-> Strip(lines[k + 1])]

\* dashboard.py lines 73-79: the stripped, non-empty lines, in file order.
Alerts(log) ==
    LET lines == LinesFrom(log, 1, << >>)
        stripped == [k \in 1..Len(lines) |-> Strip(lines[k])]
    IN  SelectSeq(stripped, LAMBDA e : e # << >>)

\* Mutation: lines 80-87 are missing, severities are taken as they come.
Validated_AsIs(kws) == kws

\* Lines 80-87: a severity outside valid_severities becomes 'Warning'; the
\* keys and their order stay.
Validated(kws) ==
    [i \in 1..Len(kws) |->
        [keyword |-> kws[i].keyword,
         severity |-> IF kws[i].severity \notin Severities THEN "Warning"
                      ELSE kws[i].severity]]

\* load_config() lines 62-90 on the dict json.load() returned: raw.present
\* is the set of its keys.
load_config(raw) ==
    [log_files |->
        IF "log_files" \notin raw.present \/ raw.log_files = << >>
        THEN DefaultLogFiles ELSE raw.log_files,
     keywords |->
        Validated(IF "keywords" \notin raw.present \/ raw.keywords = << >>
                  THEN DefaultKeywords ELSE raw.keywords),
     alert_methods |->
        IF "alert_methods" \notin raw.present \/ raw.alert_methods = {}
        THEN DefaultAlertMethods ELSE raw.alert_methods,
     present |-> raw.present \cup {"log_files", "keywords", "alert_methods"}]

(***************************************************************************)
(* Environment: writers, rotation, truncation, signals, faults.            *)
(***************************************************************************)
CreateFile(p) ==
    /\ dir[p] = 0
    /\ \E i \in Inodes :
        /\ ~InUse(i, dir, file_handle)
        /\ dir' = [dir EXCEPT ![p] = i]
        /\ files' = [files EXCEPT ![i] = << >>]
    /\ UNCHANGED <<config, response, raw_config, polled, shutdown_requested, next_id, io_fault, sink_ok,
                   main_idx, pc, engineVars, sinkVars, started, skipped, trunc_from>>

AppendLine(p, text) ==
    /\ dir[p] # 0
    /\ next_id <= MaxLines
    /\ files' = [files EXCEPT ![dir[p]] =
                    Append(@, [id |-> next_id, text |-> text, nl |-> TRUE])]
    /\ next_id' = next_id + 1
    /\ UNCHANGED <<config, response, raw_config, polled, shutdown_requested, dir, io_fault, sink_ok,
                   main_idx, pc, engineVars, sinkVars, started, skipped, trunc_from>>

\* In-place truncation to any smaller size: the first k lines stay.
TruncateFile(p, k) ==
    /\ dir[p] # 0
    /\ k < Len(files[dir[p]])
    /\ files' = [files EXCEPT ![dir[p]] = SubSeq(@, 1, k)]
    /\ trunc_from' = IF Running /\ EngineOpenOn(p) THEN Len(files[dir[p]])
                     ELSE trunc_from
    /\ UNCHANGED <<config, response, raw_config, polled, shutdown_requested, dir, next_id, io_fault, sink_ok,
                   main_idx, pc, engineVars, sinkVars, started, skipped>>

\* The path is unlinked or renamed away (logrotate's first half).
RemoveFile(p) ==
    /\ dir[p] # 0
    /\ dir' = [dir EXCEPT ![p] = 0]
    /\ files' = Reclaim(files, dir', file_handle)
    /\ trunc_from' = IF Running /\ CurPath = p THEN 0 ELSE trunc_from
    /\ UNCHANGED <<config, response, raw_config, polled, shutdown_requested, next_id, io_fault, sink_ok,
                   main_idx, pc, engineVars, sinkVars, started, skipped>>

\* A new, empty file is renamed over the path: a different inode at once.
RotateFile(p) ==
    /\ dir[p] # 0
    /\ \E i \in Inodes :
        /\ ~InUse(i, dir, file_handle)
        /\ dir' = [dir EXCEPT ![p] = i]
        /\ files' = Reclaim([files EXCEPT ![i] = << >>], dir', file_handle)
    /\ trunc_from' = IF Running /\ CurPath = p THEN 0 ELSE trunc_from
    /\ UNCHANGED <<config, response, raw_config, polled, shutdown_requested, next_id, io_fault, sink_ok,
                   main_idx, pc, engineVars, sinkVars, started, skipped>>

\* SIGINT/SIGTERM delivered: signal_handler sets the flag.
signal_handler ==
    /\ ~shutdown_requested
    /\ shutdown_requested' = TRUE
    /\ UNCHANGED <<config, response, raw_config, polled, dir, files, next_id, io_fault, sink_ok,
                   main_idx, pc, engineVars, sinkVars, started, skipped, trunc_from>>

\* open() or read() on log files starts or stops raising OSError.
IoFault ==
    /\ \E k \in {"none", "open", "read"} :
        /\ k # io_fault
        /\ io_fault' = k
    /\ UNCHANGED <<config, response, raw_config, polled, shutdown_requested, dir, files, next_id, sink_ok,
                   main_idx, pc, engineVars, sinkVars, started, skipped, trunc_from>>

\* alerts/alerts.log becomes unwritable, or writable again.
SinkToggle ==
    /\ sink_ok' = ~sink_ok
    /\ UNCHANGED <<config, response, raw_config, polled, shutdown_requested, dir, files, next_id, io_fault,
                   main_idx, pc, engineVars, sinkVars, started, skipped, trunc_from>>

\* dashboard.py get_alerts(): a request to /api/alerts is served; the file
\* is opened for reading only.
get_alerts ==
    /\ response' = [status |-> 200, alerts |-> Alerts(alerts_log),
                    count |-> Len(Alerts(alerts_log))]
    /\ UNCHANGED monitorVars

(***************************************************************************)
(* main(): the for loop over log_files (lines 312-322).                    *)
(***************************************************************************)
\* main() line 295: config = load_config().
MainLoadConfig ==
    /\ pc = "load"
    /\ config' = load_config(config)
    /\ pc' = "main"
    /\ UNCHANGED <<response, raw_config, polled, envVars, main_idx, engineVars,
                   sinkVars, started, skipped, histVars>>

\* os.path.exists(log_file) holds: monitor_file(log_file, ...) is entered
\* (lines 183-188 set its locals).
MainStart ==
    /\ pc = "main"
    /\ main_idx <= Len(log_files)
    /\ dir[CurPath] # 0
    /\ started' = started \cup {CurPath}
    /\ file_handle' = NoHandle
    /\ current_file_id' = NoId
    /\ new_file_id' = NoId
    /\ file_rotated' = FALSE
    /\ last_position' = 0
    /\ lineno' = 0
    /\ at_open' = {}
    /\ open_kind' = "none"
    /\ reopened' = FALSE
    /\ pc' = "top"
    /\ trunc_from' = 0
    /\ polled' = NoId
    /\ UNCHANGED <<config, response, raw_config, envVars, main_idx, sinkVars, skipped>>

\* os.path.exists(log_file) fails: "Log file not found, skipping".
MainSkip ==
    /\ pc = "main"
    /\ main_idx <= Len(log_files)
    /\ dir[CurPath] = 0
    /\ skipped' = skipped \cup {CurPath}
    /\ main_idx' = main_idx + 1
    /\ UNCHANGED <<config, response, raw_config, polled, envVars, pc, engineVars, sinkVars, started, histVars>>

\* The loop is over: "LogWatcher shut down complete", main() returns.
MainExit ==
    /\ pc = "main"
    /\ main_idx > Len(log_files)
    /\ pc' = "exit"
    /\ UNCHANGED <<config, response, raw_config, polled, envVars, main_idx, engineVars, sinkVars, started, skipped, histVars>>

(***************************************************************************)
(* monitor_file() (lines 171-283).                                         *)
(***************************************************************************)
\* Mutation: no `finally`, the handle is left as it is on the way out.
MonitorReturn_NoClose ==
    /\ main_idx' = main_idx + 1
    /\ pc' = "main"
    /\ trunc_from' = 0
    /\ UNCHANGED <<config, response, raw_config, polled, envVars, engineVars, sinkVars, started, skipped>>

\* The way out of monitor_file(): the while condition fails or an exception
\* reaches the outer handlers; `finally` closes the handle; main()'s loop
\* goes on to the next path.
MonitorReturn ==
    /\ file_handle' = NoHandle
    /\ current_file_id' = NoId
    /\ new_file_id' = NoId
    /\ file_rotated' = FALSE
    /\ last_position' = 0
    /\ lineno' = 0
    /\ at_open' = {}
    /\ open_kind' = "none"
    /\ reopened' = FALSE
    /\ main_idx' = main_idx + 1
    /\ pc' = "main"
    /\ files' = Reclaim(files, dir, NoHandle)
    /\ trunc_from' = 0
    /\ polled' = NoId
    /\ UNCHANGED <<config, response, raw_config, dir, next_id, io_fault, sink_ok, shutdown_requested,
                   sinkVars, started, skipped>>

\* Line 191: `while not shutdown_requested` fails.
LoopExit ==
    /\ pc = "top"
    /\ shutdown_requested
    /\ MonitorReturn

\* Mutation: `while True`.
LoopEnter_IgnoresFlag ==
    /\ pc = "top"
    /\ pc' = "stat"
    /\ UNCHANGED <<config, response, raw_config, polled, envVars, main_idx,
                   engineVars, sinkVars, started, skipped, histVars>>

\* Line 191: `while not shutdown_requested` holds, a cycle starts.  The
\* flag is not looked at again before the end of the cycle.
LoopEnter ==
    /\ pc = "top"
    /\ ~shutdown_requested
    /\ pc' = "stat"
    /\ UNCHANGED <<config, response, raw_config, polled, envVars, main_idx,
                   engineVars, sinkVars, started, skipped, histVars>>

\* Lines 193-203: os.stat fails; the handle, if any, is closed and dropped;
\* sleep(1); continue.
PollMissing ==
    /\ pc = "stat"
    /\ get_file_id(CurPath) = NoId
    /\ file_handle' = NoHandle
    /\ pc' = "top"
    /\ files' = Reclaim(files, dir, NoHandle)
    /\ trunc_from' = 0
    /\ polled' = NoId
    /\ UNCHANGED <<config, response, raw_config, dir, next_id, io_fault, sink_ok, shutdown_requested,
                   main_idx, current_file_id, new_file_id,
                   file_rotated, last_position, lineno, at_open, open_kind,
                   reopened, sinkVars, started, skipped>>

\* Lines 205-225: the verdict is rotated or truncated; the old handle is
\* closed (the variable keeps the closed file object).
PollReopen ==
    /\ pc = "stat"
    /\ get_file_id(CurPath) # NoId
    /\ FileRotated(get_file_id(CurPath)) \/ FileTruncated(get_file_id(CurPath))
    /\ new_file_id' = get_file_id(CurPath)
    /\ file_rotated' = FileRotated(get_file_id(CurPath))
    /\ file_handle' = IF file_handle.st = "none" THEN NoHandle ELSE ClosedHandle
    /\ files' = Reclaim(files, dir, file_handle')
    /\ pc' = "open"
    /\ polled' = get_file_id(CurPath)
    /\ UNCHANGED <<config, response, raw_config, dir, next_id, io_fault, sink_ok, shutdown_requested,
                   main_idx, current_file_id, last_position, lineno,
                   at_open, open_kind, reopened, sinkVars, started, skipped, histVars>>

\* Lines 205-223: neither flag is set; control falls to the read at line 250.
PollUnchanged ==
    /\ pc = "stat"
    /\ get_file_id(CurPath) # NoId
    /\ ~FileRotated(get_file_id(CurPath))
    /\ ~FileTruncated(get_file_id(CurPath))
    /\ pc' = "read"
    /\ polled' = get_file_id(CurPath)
    /\ UNCHANGED <<config, response, raw_config, envVars, main_idx, engineVars, sinkVars, started, skipped, histVars>>

\* Lines 228-229 and 237-242: open() succeeds; current_file_id takes the
\* identity stat'd at the top of the iteration.  After a truncation the
\* cursor and the line counter restart at 0; after a rotation lines 233-235
\* follow.
OpenOk ==
    /\ pc = "open"
    /\ dir[CurPath] # 0
    /\ io_fault # "open"
    /\ file_handle' = [st |-> "open", ino |-> dir[CurPath], pos |-> 0]
    /\ current_file_id' = new_file_id
    /\ new_file_id' = NoId
    /\ file_rotated' = FALSE
    /\ reopened' = TRUE
    /\ trunc_from' = 0
    /\ IF file_rotated
       THEN /\ pc' = "seek"
            /\ open_kind' = IF current_file_id = NoId THEN "first" ELSE "rotated"
            /\ at_open' = at_open \cup Ids(files[dir[CurPath]])
            /\ UNCHANGED <<last_position, lineno>>
       ELSE /\ pc' = "read"
            /\ open_kind' = "truncated"
            /\ last_position' = 0
            /\ lineno' = 0
            /\ UNCHANGED at_open
    /\ UNCHANGED <<config, response, raw_config, polled, envVars, main_idx, sinkVars, started, skipped>>

\* Lines 244-247: open() raises; logged; sleep(1); continue.  file_handle
\* and current_file_id keep their values.
OpenFail ==
    /\ pc = "open"
    /\ dir[CurPath] = 0 \/ io_fault = "open"
    /\ new_file_id' = NoId
    /\ file_rotated' = FALSE
    /\ pc' = "top"
    /\ UNCHANGED <<config, response, raw_config, polled, envVars, main_idx, file_handle, current_file_id,
                   last_position, lineno, at_open, open_kind, reopened,
                   sinkVars, started, skipped, histVars>>

\* Mutation: seek(0) instead of seek(0, os.SEEK_END).
SeekEnd_Start ==
    /\ pc = "seek"
    /\ file_handle' = [file_handle EXCEPT !.pos = 0]
    /\ last_position' = 0
    /\ pc' = "count"
    /\ UNCHANGED <<config, response, raw_config, polled, envVars, main_idx, current_file_id, new_file_id,
                   file_rotated, lineno, at_open, open_kind, reopened,
                   sinkVars, started, skipped, histVars>>

\* Lines 233-234: seek(0, SEEK_END); last_position = tell().
SeekEnd ==
    /\ pc = "seek"
    /\ file_handle' = [file_handle EXCEPT !.pos = Len(files[file_handle.ino])]
    /\ last_position' = Len(files[file_handle.ino])
    /\ pc' = "count"
    /\ UNCHANGED <<config, response, raw_config, polled, envVars, main_idx, current_file_id, new_file_id,
                   file_rotated, lineno, at_open, open_kind, reopened,
                   sinkVars, started, skipped, histVars>>

\* Line 235: lineno = count_file_lines(filepath).
CountLines ==
    /\ pc = "count"
    /\ lineno' = count_file_lines(CurPath)
    /\ pc' = "read"
    /\ UNCHANGED <<config, response, raw_config, polled, envVars, main_idx, file_handle, current_file_id,
                   new_file_id, file_rotated, last_position, at_open, open_kind,
                   reopened, sinkVars, started, skipped, histVars>>

\* Line 250: file_handle is None; the loop starts over.
ReadNoHandle ==
    /\ pc = "read"
    /\ file_handle.st = "none"
    /\ pc' = "top"
    /\ UNCHANGED <<config, response, raw_config, polled, envVars, main_idx, engineVars, sinkVars, started, skipped, histVars>>

\* Line 251 on a closed file object: ValueError, caught at line 278; the
\* function ends.
ReadClosed ==
    /\ pc = "read"
    /\ file_handle.st = "closed"
    /\ MonitorReturn

\* Line 251 raises OSError, caught at line 278; the function ends.
ReadError ==
    /\ pc = "read"
    /\ file_handle.st = "open"
    /\ io_fault = "read"
    /\ MonitorReturn

\* Lines 251-256: readline() returns ''; sleep(0.5); continue.
ReadEmpty ==
    /\ pc = "read"
    /\ file_handle.st = "open"
    /\ io_fault # "read"
    /\ file_handle.pos >= Len(files[file_handle.ino])
    /\ pc' = "top"
    /\ UNCHANGED <<config, response, raw_config, polled, envVars, main_idx, engineVars, sinkVars, started, skipped, histVars>>

\* Lines 262-274 for one line: nothing without a match; otherwise the
\* console alert if configured, and log_incident, for the first match only.
CheckKeywords(line) ==
    LET m == FirstMatch(line.text, keywords) IN
    IF m = 0
    THEN UNCHANGED <<sinkVars, reopened>>
    ELSE /\ stdout' = IF "console" \in alert_methods
                      THEN alert_console(stdout, keywords[m].severity, line.text)
                      ELSE stdout
         /\ alerts_log' = log_incident(alerts_log, keywords[m].severity,
                                       line, CurPath, lineno')
         /\ emitted' = Append(emitted,
                [severity |-> keywords[m].severity, file |-> CurPath,
                 lineno |-> lineno', line |-> line.text, id |-> line.id,
                 kind |-> open_kind, reopened |-> reopened,
                 old |-> line.id \in at_open, recorded |-> sink_ok,
                 stopping |-> shutdown_requested])
         /\ reopened' = FALSE

\* Mutation: the increment is lost.
NextLineno_Stuck(n) == n

\* Line 258: lineno += 1.
NextLineno(n) == n + 1

\* Lines 251-274: readline() returns a line.
ReadLine ==
    /\ pc = "read"
    /\ file_handle.st = "open"
    /\ io_fault # "read"
    /\ file_handle.pos < Len(files[file_handle.ino])
    /\ lineno' = NextLineno(lineno)
    /\ file_handle' = [file_handle EXCEPT !.pos = @ + 1]
    /\ last_position' = file_handle.pos + 1
    /\ CheckKeywords(files[file_handle.ino][file_handle.pos + 1])
    /\ pc' = "top"
    /\ UNCHANGED <<config, response, raw_config, polled, envVars, main_idx, current_file_id, new_file_id,
                   file_rotated, at_open, open_kind, started, skipped, histVars>>

(***************************************************************************)
(* Specifications.                                                         *)
(***************************************************************************)
InitWith(cfg) ==
    /\ config = cfg
    /\ shutdown_requested = FALSE
    /\ dir = [p \in Paths |-> 0]
    /\ files = [i \in Inodes |-> << >>]
    /\ next_id = 1
    /\ io_fault = "none"
    /\ sink_ok = TRUE
    /\ main_idx = 1
    /\ pc = "main"
    /\ file_handle = NoHandle
    /\ current_file_id = NoId
    /\ new_file_id = NoId
    /\ file_rotated = FALSE
    /\ last_position = 0
    /\ lineno = 0
    /\ emitted = << >>
    /\ alerts_log = << >>
    /\ stdout = << >>
    /\ started = {}
    /\ skipped = {}
    /\ at_open = {}
    /\ open_kind = "none"
    /\ reopened = FALSE
    /\ trunc_from = 0
    /\ response = NoResponse
    /\ raw_config = config
    /\ polled = NoId

Main == MainStart \/ MainSkip \/ MainExit

Engine ==
    \/ LoopEnter \/ LoopExit \/ PollMissing \/ PollReopen \/ PollUnchanged
    \/ OpenOk \/ OpenFail \/ SeekEnd \/ CountLines
    \/ ReadNoHandle \/ ReadClosed \/ ReadEmpty \/ ReadLine

Program == Main \/ Engine

Configured == { log_files[i] : i \in 1..Len(log_files) }

Writer ==
    \E p \in Configured :
        \/ CreateFile(p)
        \/ \E t \in LineTexts : AppendLine(p, t)

Disturb ==
    \E p \in Configured :
        \/ \E k \in 0..MaxLines : TruncateFile(p, k)
        \/ RemoveFile(p)
        \/ RotateFile(p)

Init == InitWith([DefaultConfig EXCEPT !.log_files = <<"a.log">>])

\* One monitored path; writers, rotation, truncation, removal and signals.
Next == Program \/ Writer \/ Disturb \/ signal_handler

Spec == Init /\ [][Next]_vars

\* Spec plus failing open()/read() calls.
EngineFault == Engine \/ ReadError

NextFault == Main \/ EngineFault \/ Writer \/ Disturb \/ signal_handler \/ IoFault

FaultSpec == Init /\ [][NextFault]_vars

\* Spec with a failing alerts log instead of signals (LoopExit is never
\* enabled without a signal).
EngineNoSignal ==
    \/ LoopEnter \/ PollMissing \/ PollReopen \/ PollUnchanged
    \/ OpenOk \/ OpenFail \/ SeekEnd \/ CountLines
    \/ ReadNoHandle \/ ReadClosed \/ ReadEmpty \/ ReadLine

NextSink == Main \/ EngineNoSignal \/ Writer \/ Disturb \/ SinkToggle

SinkSpec == Init /\ [][NextSink]_vars

\* Appends only: no rotation, truncation, removal, fault or signal.  The
\* engine steps left out (LoopExit, PollMissing, OpenFail, ReadNoHandle,
\* ReadClosed, ReadError) are never enabled in this environment.  The loop
\* of monitor_file() has no blocking call, only bounded sleeps, so the
\* program keeps taking steps: weak fairness of Program.
EngineSteady ==
    \/ LoopEnter \/ PollReopen \/ PollUnchanged \/ OpenOk \/ SeekEnd \/ CountLines
    \/ ReadEmpty \/ ReadLine

ProgramSteady == Main \/ EngineSteady

NextAppend == ProgramSteady \/ Writer

AppendSpec == Init /\ [][NextAppend]_vars /\ WF_vars(ProgramSteady)

\* Two configured paths, writers and signals, with the same fairness.
Init2 == InitWith(DefaultConfig)

EngineMulti == EngineSteady \/ LoopExit

ProgramMulti == Main \/ EngineMulti

NextMulti == ProgramMulti \/ Writer \/ signal_handler

MultiSpec == Init2 /\ [][NextMulti]_vars /\ WF_vars(ProgramMulti)

\* Spec with the fairness of AppendSpec: the loop has only
\* bounded sleeps, and a signal does not cut them short with an exception
\* (signal_handler returns normally).
StopSpec == Init /\ [][Next]_vars /\ WF_vars(Program)

(***************************************************************************)
(* Classification harness: the engine is Open on a file whose one unread   *)
(* line has any text up to MaxTextLen, with any keyword table of one or    *)
(* two rules and either alert method; the only step is the read.           *)
(***************************************************************************)
Rules ==
    { [keyword |-> <<"W">>, severity |-> "Warning"],
      [keyword |-> <<"F", "A">>, severity |-> "Critical"],
      [keyword |-> <<"A">>, severity |-> "Info"] }

Tables ==
    { <<r>> : r \in Rules } \cup
    { <<r[1], r[2]>> : r \in { q \in Rules \X Rules : q[1].keyword # q[2].keyword } }

AllTexts == UNION { [1..n -> Chars] : n \in 0..MaxTextLen }

InitClassify ==
    /\ config \in { [log_files |-> <<"a.log">>, keywords |-> t, alert_methods |-> m] :
                        t \in Tables, m \in {{"console"}, {"email"}} }
    /\ shutdown_requested = FALSE
    /\ dir = [p \in Paths |-> IF p = "a.log" THEN 1 ELSE 0]
    /\ \E text \in AllTexts :
          files = [i \in Inodes |-> IF i = 1
                                     THEN << [id |-> 1, text |-> text, nl |-> TRUE] >>
                                     ELSE << >>]
    /\ next_id = 2
    /\ io_fault = "none"
    /\ sink_ok \in BOOLEAN
    /\ main_idx = 1
    /\ pc = "read"
    /\ file_handle = [st |-> "open", ino |-> 1, pos |-> 0]
    /\ current_file_id = [ino |-> 1, size |-> 0]
    /\ new_file_id = NoId
    /\ file_rotated = FALSE
    /\ last_position = 0
    /\ lineno = 0
    /\ emitted = << >>
    /\ alerts_log = << >>
    /\ stdout = << >>
    /\ started = {"a.log"}
    /\ skipped = {}
    /\ at_open = {}
    /\ open_kind = "first"
    /\ reopened = TRUE
    /\ trunc_from = 0
    /\ response = NoResponse
    /\ raw_config = config
    /\ polled = [ino |-> 1, size |-> 1]

NextClassify == ReadLine

ClassifySpec == InitClassify /\ [][NextClassify]_vars

(***************************************************************************)
(* Incident log harness: two configured paths; the engine is Open on a.log *)
(* at offset 0 and the writer has put one line after the cursor, finished  *)
(* or not; b.log does not exist yet.  A failing read ends the first engine *)
(* and lets main() go on to b.log; the dashboard is polled at any time.    *)
(***************************************************************************)
InitLog ==
    /\ config = DefaultConfig
    /\ shutdown_requested = FALSE
    /\ dir = [p \in Paths |-> IF p = "a.log" THEN 1 ELSE 0]
    /\ \E text \in LineTexts, nl \in BOOLEAN :
          files = [i \in Inodes |-> IF i = 1
                                     THEN << [id |-> 1, text |-> text, nl |-> nl] >>
                                     ELSE << >>]
    /\ next_id = 2
    /\ io_fault = "none"
    /\ sink_ok = TRUE
    /\ main_idx = 1
    /\ pc = "read"
    /\ file_handle = [st |-> "open", ino |-> 1, pos |-> 0]
    /\ current_file_id = [ino |-> 1, size |-> 0]
    /\ new_file_id = NoId
    /\ file_rotated = FALSE
    /\ last_position = 0
    /\ lineno = 0
    /\ emitted = << >>
    /\ alerts_log = << >>
    /\ stdout = << >>
    /\ started = {"a.log"}
    /\ skipped = {}
    /\ at_open = {}
    /\ open_kind = "first"
    /\ reopened = TRUE
    /\ trunc_from = 0
    /\ response = NoResponse
    /\ raw_config = config
    /\ polled = [ino |-> 1, size |-> 1]

EngineLog == EngineSteady \/ OpenFail \/ ReadError

NextLog == Main \/ EngineLog \/ Writer \/ IoFault \/ get_alerts

LogSpec == InitLog /\ [][NextLog]_vars

(***************************************************************************)
(* Configuration harness: config.json holds any JSON object whose          *)
(* log_files (a list), keywords (an object) and alert_methods (a list) are *)
(* each missing, empty or filled, with severities inside and outside the   *)
(* valid ones; main() loads it and monitors with appends and a signal.     *)
(***************************************************************************)
RawSeverities == Severities \cup {"info"}

RawRules ==
    { [keyword |-> k, severity |-> v] : k \in {<<"W">>, <<"F", "A">>},
                                        v \in RawSeverities }

RawTables ==
    { << >> } \cup { <<r>> : r \in RawRules } \cup
    { <<r[1], r[2]>> : r \in { q \in RawRules \X RawRules :
                                  q[1].keyword # q[2].keyword } }

RawConfigs ==
    [present : SUBSET {"log_files", "keywords", "alert_methods"},
     log_files : { << >>, <<"b.log">> },
     keywords : RawTables,
     alert_methods : { {}, {"console"}, {"email"} }]

\* A key that is not in the dict has no value.
WellFormedRaw(raw) ==
    /\ "log_files" \notin raw.present => raw.log_files = << >>
    /\ "keywords" \notin raw.present => raw.keywords = << >>
    /\ "alert_methods" \notin raw.present => raw.alert_methods = {}

InitConfig ==
    /\ config \in { raw \in RawConfigs : WellFormedRaw(raw) }
    /\ raw_config = config
    /\ polled = NoId
    /\ shutdown_requested = FALSE
    /\ dir = [p \in Paths |-> 0]
    /\ files = [i \in Inodes |-> << >>]
    /\ next_id = 1
    /\ io_fault = "none"
    /\ sink_ok = TRUE
    /\ main_idx = 1
    /\ pc = "load"
    /\ file_handle = NoHandle
    /\ current_file_id = NoId
    /\ new_file_id = NoId
    /\ file_rotated = FALSE
    /\ last_position = 0
    /\ lineno = 0
    /\ emitted = << >>
    /\ alerts_log = << >>
    /\ stdout = << >>
    /\ started = {}
    /\ skipped = {}
    /\ at_open = {}
    /\ open_kind = "none"
    /\ reopened = FALSE
    /\ trunc_from = 0
    /\ response = NoResponse

EngineConfig == EngineSteady \/ LoopExit

NextConfig ==
    MainLoadConfig \/ Main \/ EngineConfig \/ Writer \/ signal_handler

ConfigSpec == InitConfig /\ [][NextConfig]_vars

(***************************************************************************)
(* Vocabulary of the properties.                                           *)
(***************************************************************************)
LineIds == 1..MaxLines

EmittedIds == { emitted[i].id : i \in 1..Len(emitted) }

HasKeyword(text) == \E i \in 1..Len(keywords) : KeywordIn(keywords[i].keyword, text)

\* The rules whose keyword is a substring of the text.
Matches(text) == { i \in 1..Len(keywords) : KeywordIn(keywords[i].keyword, text) }

\* The engine is Open on some path and the keyword line `id` lies in that
\* file after the cursor: every line appended while the engine is Open is in
\* this position right after its append.
UnreadKeywordLine(id) ==
    /\ Running
    /\ EngineOpenOn(CurPath)
    /\ \E i \in 1..Len(files[file_handle.ino]) :
          /\ i > file_handle.pos
          /\ files[file_handle.ino][i].id = id
          /\ HasKeyword(files[file_handle.ino][i].text)

\* The step of lines 251-274 that read a line.
ReadStep == pc = "read" /\ pc' = "top" /\ file_handle'.pos = file_handle.pos + 1

(***************************************************************************)
(* C1.  Appends only, engine Open: every appended keyword line eventually  *)
(* produces an incident, incidents come once per line and in the order of  *)
(* the lines, and a line without any keyword never produces one.           *)
(***************************************************************************)
C1_Safe ==
    /\ \A i, j \in 1..Len(emitted) : i < j => emitted[i].id < emitted[j].id
    /\ \A i \in 1..Len(emitted) : HasKeyword(emitted[i].line)

C1_AppendsProduceIncidents ==
    /\ []C1_Safe
    /\ \A id \in LineIds : UnreadKeywordLine(id) ~> (id \in EmittedIds)

C1_Witness ==
    /\ Len(emitted) = 2
    /\ ~emitted[1].old /\ ~emitted[2].old
    /\ emitted[1].lineno = 1 /\ emitted[2].lineno = 2

(***************************************************************************)
(* C2.  As stated: no incident is ever produced for a line that was in the *)
(* file when the engine opened it on FirstOpen or Rotated, and no line is  *)
(* reported a second time after a rotation.                                *)
(***************************************************************************)
C2_NeverOldLine ==
    /\ \A i \in 1..Len(emitted) : ~emitted[i].old
    /\ \A i, j \in 1..Len(emitted) :
          (i < j /\ emitted[i].id = emitted[j].id) => emitted[j].kind = "truncated"

(***************************************************************************)
(* C2 as amended: the same, for the incidents read through a handle opened *)
(* on FirstOpen or Rotated.  (After a detected in-place truncation that    *)
(* kept a prefix of the file, the engine reads that prefix from offset 0.) *)
(***************************************************************************)
C2_NoOldLineUnlessTruncated ==
    \A j \in 1..Len(emitted) :
        emitted[j].kind \in {"first", "rotated"} =>
            /\ ~emitted[j].old
            /\ \A i \in 1..Len(emitted) : i < j => emitted[i].id # emitted[j].id

\* A file that had a keyword line when it was opened, and an incident for a
\* line appended later.
C2_Witness ==
    /\ at_open # {}
    /\ Len(emitted) > 0
    /\ Last(emitted).kind = "rotated"
    /\ \E i \in 1..Len(files[file_handle.ino]) :
          /\ files[file_handle.ino][i].id \in at_open
          /\ HasKeyword(files[file_handle.ino][i].text)

(***************************************************************************)
(* C3.  After a rotation the new file is captured from its own first line: *)
(* once the engine is Open on the new file, no keyword line of it lies     *)
(* before the cursor without having produced an incident.                  *)
(***************************************************************************)
C3_NewFileFromFirstLine ==
    (Running /\ EngineOpenOn(CurPath) /\ open_kind = "rotated" /\ trunc_from = 0) =>
        \A i \in 1..Len(files[file_handle.ino]) :
            (i <= file_handle.pos /\ HasKeyword(files[file_handle.ino][i].text))
                => files[file_handle.ino][i].id \in EmittedIds

(***************************************************************************)
(* C4.  Every in-place truncation while the engine is Open leads to a      *)
(* reopen at offset 0: the engine never goes on to read (verdict           *)
(* Unchanged) at a poll that sees the same file smaller than it was before *)
(* the truncation, with its cursor beyond the end of the file.             *)
(***************************************************************************)
C4_TruncationReopens ==
    [][ ( /\ pc = "stat"
          /\ pc' = "read"
          /\ trunc_from > 0
          /\ get_file_id(CurPath).ino = file_handle.ino
          /\ file_handle.pos > get_file_id(CurPath).size )
        => get_file_id(CurPath).size >= trunc_from ]_vars

(***************************************************************************)
(* C5.  A configured path that does not resolve at startup is not          *)
(* abandoned: main() never gives it up.                                    *)
(***************************************************************************)
C5_MissingPathNotAbandoned == skipped = {}

(***************************************************************************)
(* C6.  One engine per configured path, each with its own lifetime: a path *)
(* that names a file gets its engine, whatever the other engines do,       *)
(* unless a shutdown is requested.                                         *)
(***************************************************************************)
C6_EveryPathGetsItsEngine ==
    \A p \in Paths :
        (p \in Configured /\ dir[p] # 0) ~> (p \in started \/ shutdown_requested)

(***************************************************************************)
(* C7.  Reading a line emits at most one incident: none if no keyword is a *)
(* substring of the line; otherwise one, with the severity of the first    *)
(* rule in table order whose keyword is in the line, one console alert if  *)
(* the console method is configured, and one record in the alerts log when *)
(* it can be written.                                                      *)
(***************************************************************************)
C7_OneIncidentFirstKeyword ==
    [][ ReadStep =>
        LET text == files[file_handle.ino][file_handle.pos + 1].text
            M == Matches(text)
            first == CHOOSE i \in M : \A j \in M : i <= j
        IN  IF M = {}
            THEN UNCHANGED <<emitted, alerts_log, stdout>>
            ELSE /\ Len(emitted') = Len(emitted) + 1
                 /\ SubSeq(emitted', 1, Len(emitted)) = emitted
                 /\ Last(emitted').severity = keywords[first].severity
                 /\ Last(emitted').line = text
                 /\ IF "console" \in alert_methods
                    THEN stdout' = Append(stdout,
                            [severity |-> keywords[first].severity, line |-> text])
                    ELSE stdout' = stdout
                 /\ IF sink_ok
                    THEN /\ Len(alerts_log') = Len(alerts_log) + 1
                         /\ Last(alerts_log').severity = keywords[first].severity
                    ELSE alerts_log' = alerts_log
      ]_vars

\* A line with two keywords was reported once, with the severity of the
\* first rule although the second rule is the more severe one.
C7_Witness ==
    /\ Len(emitted) = 1
    /\ Len(stdout) = 1
    /\ Cardinality(Matches(emitted[1].line)) = 2
    /\ emitted[1].severity = "Warning"
    /\ keywords[2].severity = "Critical"

(***************************************************************************)
(* C8.  An I/O error on open or read never makes the engine stop:          *)
(* monitor_file() returns only when a shutdown was requested.              *)
(***************************************************************************)
C8_IoErrorNeverCloses ==
    [][ (Running /\ pc' = "main") => shutdown_requested ]_vars

(***************************************************************************)
(* C9.  A failed incident write is swallowed: the step that emitted the    *)
(* incident leaves the loop running with the cursor and the line counter   *)
(* advanced exactly as after a successful write and the log untouched, and *)
(* whatever failed before, every incident emitted while the sink works is  *)
(* recorded.                                                               *)
(***************************************************************************)
Recorded ==
    LET ok == SelectSeq(emitted, LAMBDA e : e.recorded)
    IN  [i \in 1..Len(ok) |->
            [severity |-> ok[i].severity, file |-> ok[i].file,
             lineno |-> ok[i].lineno, line |-> ok[i].line, nl |-> TRUE]]

C9_SinkFailureSwallowed ==
    /\ [](alerts_log = Recorded)
    /\ [][ (Len(emitted') = Len(emitted) + 1 /\ ~sink_ok) =>
              /\ pc' = "top"
              /\ main_idx' = main_idx
              /\ file_handle' = [file_handle EXCEPT !.pos = @ + 1]
              /\ lineno' = lineno + 1
              /\ alerts_log' = alerts_log ]_vars

\* A write failed and a later incident was recorded.
C9_Witness ==
    /\ Len(emitted) = 2
    /\ ~emitted[1].recorded
    /\ emitted[2].recorded
    /\ Len(alerts_log) = 1

(***************************************************************************)
(* C10.  As stated: the line numbers of the incidents of one path increase *)
(* strictly in recording order, over appends, truncations and rotations.   *)
(***************************************************************************)
C10_LineNumbersIncrease ==
    \A i, j \in 1..Len(emitted) :
        (i < j /\ emitted[i].file = emitted[j].file)
            => emitted[i].lineno < emitted[j].lineno

(***************************************************************************)
(* C10 as amended: they increase strictly between two incidents of a path  *)
(* with no reopen of the file in between.                                  *)
(***************************************************************************)
C10_IncreaseBetweenReopens ==
    \A j \in 2..Len(emitted) :
        (emitted[j - 1].file = emitted[j].file /\ ~emitted[j].reopened)
            => emitted[j - 1].lineno < emitted[j].lineno

C10_Witness ==
    /\ Len(emitted) = 2
    /\ ~emitted[2].reopened
    /\ emitted[2].lineno > emitted[1].lineno

(***************************************************************************)
(* C11.  Once the stop flag is set, whatever the engine is doing, the      *)
(* engine stops and the process exits; an engine that has stopped holds no *)
(* open handle, and none is open at exit.                                  *)
(***************************************************************************)
C11_StopsWithHandleClosed ==
    /\ [](pc \in {"main", "exit"} => file_handle.st # "open")
    /\ shutdown_requested ~> (pc = "exit")

\* The flag was set while the engine was reading: its last incident came
\* after the flag, and the process has exited.
C11_Witness ==
    /\ pc = "exit"
    /\ shutdown_requested
    /\ Len(emitted) > 0
    /\ Last(emitted).stopping

(***************************************************************************)
(* C12.  Every line of the incident log is exactly one complete incident   *)
(* record, also when the log holds incidents of two monitored files, and   *)
(* whenever the dashboard reads the log, what it reads is complete records *)
(* only: the records written so far, one per line.                         *)
(***************************************************************************)
C12_OneCompleteRecordPerLine ==
    /\ [](\A k \in 1..Len(alerts_log) : alerts_log[k].nl)
    /\ [](LET lines == LinesFrom(alerts_log, 1, << >>)
          IN  /\ Len(lines) = Len(emitted)
              /\ \A k \in 1..Len(lines) :
                    /\ Len(lines[k]) = 1
                    /\ lines[k][1].file = emitted[k].file
                    /\ lines[k][1].lineno = emitted[k].lineno
                    /\ lines[k][1].line = emitted[k].line)
    /\ [][ response' # response =>
             /\ Len(response'.alerts) = Len(emitted)
             /\ \A k \in 1..Len(emitted) : Len(response'.alerts[k]) = 1 ]_vars

\* The log holds an incident of a.log whose line had no newline yet,
\* followed by an incident of b.log, and the dashboard has read both.
C12_Witness ==
    /\ Len(emitted) = 2
    /\ emitted[1].file = "a.log"
    /\ emitted[2].file = "b.log"
    /\ ~files[1][1].nl
    /\ response.count = 2

(***************************************************************************)
(* C13.  Once load_config() has returned: log_files, keywords and          *)
(* alert_methods are non-empty, each the default if it was missing or      *)
(* empty and the given value otherwise; every severity is Info, Warning or *)
(* Critical, the given one if it was one of these and Warning otherwise;   *)
(* and no step of the monitoring changes the table.                        *)
(***************************************************************************)
Given(key) ==
    /\ key \in raw_config.present
    /\ key = "alert_methods" => raw_config.alert_methods # {}
    /\ key = "log_files" => raw_config.log_files # << >>
    /\ key = "keywords" => raw_config.keywords # << >>

C13_ConfigValidAfterLoad ==
    /\ [](pc # "load" =>
            /\ log_files # << >> /\ keywords # << >> /\ alert_methods # {}
            /\ log_files = IF Given("log_files") THEN raw_config.log_files
                            ELSE DefaultLogFiles
            /\ alert_methods = IF Given("alert_methods") THEN raw_config.alert_methods
                                ELSE DefaultAlertMethods
            /\ LET given == IF Given("keywords") THEN raw_config.keywords
                             ELSE DefaultKeywords
               IN  /\ Len(keywords) = Len(given)
                   /\ \A i \in 1..Len(given) :
                         /\ keywords[i].keyword = given[i].keyword
                         /\ keywords[i].severity \in Severities
                         /\ given[i].severity \in Severities
                                => keywords[i].severity = given[i].severity
                         /\ given[i].severity \notin Severities
                                => keywords[i].severity = "Warning")
    /\ [][pc # "load" => config' = config]_vars

\* A table whose first severity was not a valid one has been loaded, with
\* log_files missing, and an incident was reported as Warning under it.
C13_Witness ==
    /\ pc # "load"
    /\ "log_files" \notin raw_config.present
    /\ Given("keywords")
    /\ \E i \in 1..Len(keywords) :
          /\ raw_config.keywords[i].severity \notin Severities
          /\ Len(emitted) > 0
          /\ emitted[1].severity = "Warning"
          /\ KeywordIn(raw_config.keywords[i].keyword, emitted[1].line)

(***************************************************************************)
(* C14.  get_alerts() changes nothing but its own response: the log and    *)
(* the monitor's state stay as they are; the response lists the records of *)
(* the log, one entry per recorded incident in recording order, and its    *)
(* count is the length of the list; the monitor records every incident     *)
(* whatever the number of calls in between.                                *)
(***************************************************************************)
C14_GetAlertsReadsOnly ==
    /\ [][ response' # response =>
             /\ UNCHANGED monitorVars
             /\ response'.status = 200
             /\ response'.count = Len(response'.alerts)
             /\ Len(response'.alerts) = Len(alerts_log)
             /\ \A k \in 1..Len(alerts_log) :
                   response'.alerts[k] =
                      << [severity |-> alerts_log[k].severity,
                          file |-> alerts_log[k].file,
                          lineno |-> alerts_log[k].lineno,
                          line |-> alerts_log[k].line] >> ]_vars
    /\ [](Len(alerts_log) = Len(emitted))

\* The dashboard was answered between two incident writes.
C14_Witness ==
    /\ response.status = 200
    /\ response.count = 1
    /\ Len(alerts_log) = 2
    /\ response.alerts[1][1].lineno = alerts_log[1].lineno

(***************************************************************************)
(* C15.  An engine that holds no handle and whose identity poll finds the  *)
(* path resolving to a file goes on to open the file in that cycle,        *)
(* whatever the identity of the file is.                                   *)
(***************************************************************************)
C15_SearchingOpensWhenFound ==
    [][ ( /\ pc = "stat"
          /\ pc' # "stat"
          /\ file_handle.st = "none"
          /\ get_file_id(CurPath) # NoId )
        => pc' = "open" ]_vars

(***************************************************************************)
(* C16.  At every poll of an engine that is Open and whose previous poll   *)
(* resolved the path, the verdict the engine acts on is the one of the     *)
(* table for the identity that previous poll observed and the identity     *)
(* stat'd now.                                                             *)
(***************************************************************************)
TableVerdict(prev, new) ==
    IF new = NoId THEN "Unavailable"
    ELSE IF prev = NoId THEN "FirstOpen"
    ELSE IF new.ino # prev.ino THEN "Rotated"
    ELSE IF new.size < prev.size THEN "Truncated"
    ELSE "Unchanged"

C16_VerdictFromPreviousPoll ==
    [][ ( /\ pc = "stat"
          /\ pc' # "stat"
          /\ file_handle.st = "open"
          /\ polled # NoId ) =>
          LET expected == TableVerdict(polled, get_file_id(CurPath))
          IN  /\ pc' = "top" => expected = "Unavailable"
              /\ pc' = "read" => expected = "Unchanged"
              /\ (pc' = "open" /\ file_rotated') => expected = "Rotated"
              /\ (pc' = "open" /\ ~file_rotated') => expected = "Truncated"
      ]_vars

(***************************************************************************)
(* C17.  With appends only: once the engine has opened the file on         *)
(* FirstOpen or Rotated and set its cursor and line counter, the line      *)
(* counter is the number of lines before the cursor, so the number given   *)
(* to an incident is the position of its line in the file.                 *)
(***************************************************************************)
C17_LineCounterIsPosition ==
    (pc \in {"top", "stat", "read"} /\ file_handle.st = "open"
        /\ open_kind \in {"first", "rotated"})
    => lineno = file_handle.pos

(***************************************************************************)
(* C18.  Rotation loses no new content: when the engine gives up the       *)
(* handle of the replaced file on the Rotated verdict, that file holds no  *)
(* keyword line after the cursor that has produced no incident (such a     *)
(* line can never be read afterwards).                                     *)
(***************************************************************************)
C18_NoUnreadLineAtRotation ==
    [][ ( /\ pc = "stat"
          /\ pc' = "open"
          /\ file_rotated'
          /\ file_handle.st = "open" ) =>
          \A i \in 1..Len(files[file_handle.ino]) :
              (i > file_handle.pos /\ HasKeyword(files[file_handle.ino][i].text))
                  => files[file_handle.ino][i].id \in EmittedIds
      ]_vars

(***************************************************************************)
(* C19.  As stated: once the stop flag is set, the engine performs no      *)
(* further identity poll and no reopen.                                    *)
(***************************************************************************)
C19_NoPollNoReopenAfterFlag ==
    [][ shutdown_requested =>
          /\ ~(pc = "stat" /\ pc' # "stat")
          /\ ~(pc = "open" /\ file_handle'.st = "open") ]_vars

(***************************************************************************)
(* C19 as amended: the flag is looked at only at the top of a cycle.  With *)
(* the flag set, no cycle starts: from the top of the loop the engine only *)
(* leaves, and an engine started afterwards records nothing.  The cycle in *)
(* flight is finished (its poll and a reopen included) and reads at most   *)
(* one line, so at most one incident per engine comes after the flag.      *)
(***************************************************************************)
C19_OnlyCycleInFlight ==
    /\ [][ (shutdown_requested /\ pc \in {"main", "top"}) =>
             /\ pc' \in {"main", "top", "exit"}
             /\ emitted' = emitted
             /\ file_handle' \in {file_handle, NoHandle}
             /\ polled' \in {polled, NoId} ]_vars
    /\ [](\A p \in Paths :
            Cardinality({ i \in 1..Len(emitted) :
                            emitted[i].stopping /\ emitted[i].file = p }) <= 1)

\* The flag was set during a cycle that reopened the file after a rotation
\* and read a keyword line: one incident after the flag, then the end.
C19_Witness ==
    /\ pc = "exit"
    /\ Len(emitted) = 2
    /\ ~emitted[1].stopping
    /\ emitted[2].stopping
    /\ emitted[2].reopened
    /\ emitted[2].kind = "rotated"

(***************************************************************************)
(* C20.  Whenever the engine is about to read (line 251), the handle it    *)
(* reads from is open: it is never a file object the engine has closed.    *)
(***************************************************************************)
C20_NeverReadsClosedHandle ==
    pc = "read" => file_handle.st # "closed"

====
